---- MODULE Spec2Model ----
(***************************************************************************)
(* Model of the cleaning simulation of A01741660_ModMul_M1.py: DummyAgent  *)
(* (intent / advance) and DummyModel (__init__, spawn_dirty_tiles, step,   *)
(* print_summary).  A state is the state of one DummyModel object between  *)
(* calls of step(); Init is the outcome of DummyModel(height, width,       *)
(* agent_count, dirty_count, max_steps).                                   *)
(***************************************************************************)
EXTENDS Integers, Sequences, FiniteSets

\* ---- program constants (module level of the source) ----
N == 6

\* ---- bounds of the model ----
MaxWidth == 2
MaxExtraHeight == 1
MaxAgents == 2
MaxDirty == 2
MaxSteps == 2
MaxExtraCalls == 1

Widths == 1..MaxWidth
Heights == 1..(N + MaxExtraHeight)

\* Python's None, for next_pos (a pair otherwise) and for last_cleaned_step
\* (a step number >= 1 otherwise).
None == <<>>
NoStep == 0 - 1

VARIABLES
    width,              \* grid.width
    height,             \* grid.height
    dirty_count,        \* self.dirty_count
    max_steps,          \* self.max_steps
    agent_count,        \* the constructor's agent_count argument
    agents,             \* self.agents: unique_id -> [pos, next_pos, moves_made]
    dirty_tiles,        \* self.dirty_tiles, a list of cells
    current_step,       \* self.current_step
    done,               \* self.done
    cleaned_count,      \* self.cleaned_count
    last_cleaned_step,  \* self.last_cleaned_step
    summary,            \* what print_summary has written, one record per call
    raised,             \* the constructor raised: there is no model object
    calls,              \* history: number of step() calls made so far
    initial_dirty,      \* history: len(dirty_tiles) right after construction
    position_changes,   \* history: position changes observed across step() calls
    drawn,              \* history: the moves drawn in the last tick, when recorded
    frame,              \* animate_agents: the next frame FuncAnimation delivers
    direct              \* history: calls made on the helper methods directly

vars == <<width, height, dirty_count, max_steps, agent_count, agents, dirty_tiles,
          current_step, done, cleaned_count, last_cleaned_step, summary,
          raised, calls, initial_dirty, position_changes, drawn, frame, direct>>

\* The fields of the model object a caller can observe.
observable == <<width, height, dirty_count, max_steps, agents, dirty_tiles,
                current_step, done, cleaned_count, last_cleaned_step, summary>>

\* ---- helpers ----
Min(a, b) == IF a < b THEN a ELSE b

Range(s) == {s[i] : i \in DOMAIN s}

RECURSIVE SumOver(_, _)
SumOver(f, S) ==
    IF S = {} THEN 0
    ELSE LET i == CHOOSE j \in S : TRUE IN f[i] + SumOver(f, S \ {i})

\* list.remove(x): drops the first occurrence of x.
list_remove(s, x) ==
    LET i == CHOOSE k \in 1..Len(s) : s[k] = x /\ \A j \in 1..(k - 1) : s[j] /= x
    IN  SubSeq(s, 1, i - 1) \o SubSeq(s, i + 1, Len(s))

\* ---- DummyAgent ----
moves == << <<-1, 0>>, <<1, 0>>, <<0, 1>>, <<0, -1>>,
            <<-1, -1>>, <<1, 1>>, <<-1, 1>>, <<1, -1>> >>

\* in_bounds with the upper limits off by one.
in_bounds_inclusive(p, w, h) == 0 <= p[1] /\ p[1] <= w /\ 0 <= p[2] /\ p[2] <= h

in_bounds(p, w, h) == 0 <= p[1] /\ p[1] < w /\ 0 <= p[2] /\ p[2] < h

\* intent moving the agent at once.
intent_moves(a, move, w, h) ==
    LET new_pos == <<a.pos[1] + move[1], a.pos[2] + move[2]>>
    IN  IF in_bounds(new_pos, w, h)
        THEN [a EXCEPT !.next_pos = new_pos, !.pos = new_pos]
        ELSE [a EXCEPT !.next_pos = a.pos]

\* intent clamping a move that leaves the grid to the nearest cell.
intent_clamps(a, move, w, h) ==
    LET x == a.pos[1] + move[1]
        y == a.pos[2] + move[2]
        cx == IF x < 0 THEN 0 ELSE IF x >= w THEN w - 1 ELSE x
        cy == IF y < 0 THEN 0 ELSE IF y >= h THEN h - 1 ELSE y
    IN  [a EXCEPT !.next_pos = <<cx, cy>>]

\* intent(): the agent with state a plans the move `move`.
intent(a, move, w, h) ==
    LET new_pos == <<a.pos[1] + move[1], a.pos[2] + move[2]>>
    IN  IF in_bounds(new_pos, w, h)
        THEN [a EXCEPT !.next_pos = new_pos]
        ELSE [a EXCEPT !.next_pos = a.pos]

\* advance counting a move although the agent stays where it is.
advance_counts_stay(a, w, h) ==
    IF a.next_pos /= None /\ in_bounds(a.next_pos, w, h)
    THEN [a EXCEPT !.pos = a.next_pos, !.moves_made = a.moves_made + 1]
    ELSE a

\* advance(): commits next_pos.
advance(a, w, h) ==
    IF a.next_pos /= None /\ in_bounds(a.next_pos, w, h)
    THEN IF a.next_pos /= a.pos
         THEN [a EXCEPT !.pos = a.next_pos, !.moves_made = a.moves_made + 1]
         ELSE a
    ELSE a

\* ---- DummyModel ----
\* The agents property: the agents in insertion order (unique_id 0, 1, ...).
agents_order(ags) == [k \in 1..Cardinality(DOMAIN ags) |-> k - 1]

\* for agent in self.agents: agent.step()
RECURSIVE step_all(_, _, _, _, _)
step_all(ags, order, choice, w, h) ==
    IF order = <<>> THEN ags
    ELSE LET i == Head(order)
         IN  step_all([ags EXCEPT ![i] = intent(ags[i], moves[choice[i]], w, h)],
                      Tail(order), choice, w, h)

\* The advance loop with an agent kept out of a cell another agent is on.
RECURSIVE advance_all_exclusive(_, _, _, _)
advance_all_exclusive(ags, order, w, h) ==
    IF order = <<>> THEN ags
    ELSE LET i == Head(order)
             taken == \E j \in DOMAIN ags \ {i} : ags[j].pos = ags[i].next_pos
         IN  advance_all_exclusive(
                [ags EXCEPT ![i] = IF taken THEN ags[i] ELSE advance(ags[i], w, h)],
                Tail(order), w, h)

\* for agent in self.agents: agent.advance()
RECURSIVE advance_all(_, _, _, _)
advance_all(ags, order, w, h) ==
    IF order = <<>> THEN ags
    ELSE LET i == Head(order)
         IN  advance_all([ags EXCEPT ![i] = advance(ags[i], w, h)],
                         Tail(order), w, h)

\* to_remove looking at the first agent only.
to_remove_first_agent(tiles, ags) ==
    SelectSeq(tiles, LAMBDA tile : 0 \in DOMAIN ags /\ ags[0].pos = tile)

\* The tiles of `tiles` some agent stands on, in list order.
to_remove(tiles, ags) ==
    SelectSeq(tiles, LAMBDA tile : \E i \in DOMAIN ags : ags[i].pos = tile)

\* The removal loop forgetting to count the tile.
RECURSIVE apply_removals_uncounted(_, _, _)
apply_removals_uncounted(m, rem, step) ==
    IF rem = <<>> THEN m
    ELSE apply_removals_uncounted(
            [dirty_tiles |-> list_remove(m.dirty_tiles, Head(rem)),
             cleaned_count |-> m.cleaned_count,
             last_cleaned_step |-> step + 1],
            Tail(rem), step)

\* The removal loop noting the step without the + 1.
RECURSIVE apply_removals_zero_based(_, _, _)
apply_removals_zero_based(m, rem, step) ==
    IF rem = <<>> THEN m
    ELSE apply_removals_zero_based(
            [dirty_tiles |-> list_remove(m.dirty_tiles, Head(rem)),
             cleaned_count |-> m.cleaned_count + 1,
             last_cleaned_step |-> step],
            Tail(rem), step)

\* for tile in to_remove: remove it, count it, note the step.
RECURSIVE apply_removals(_, _, _)
apply_removals(m, rem, step) ==
    IF rem = <<>> THEN m
    ELSE apply_removals(
            [dirty_tiles |-> list_remove(m.dirty_tiles, Head(rem)),
             cleaned_count |-> m.cleaned_count + 1,
             last_cleaned_step |-> step + 1],
            Tail(rem), step)

\* The finish condition without the emptied list.
finished_budget_only(tiles, step, ms) == step >= ms

\* The finish condition without the step budget.
finished_tiles_only(tiles, step, ms) == tiles = <<>>

\* The finish condition with > for >=.
finished_strict(tiles, step, ms) == tiles = <<>> \/ step > ms

\* `not self.dirty_tiles or self.current_step >= self.max_steps`
finished(tiles, step, ms) == tiles = <<>> \/ step >= ms

total_moves(ags) == SumOver([i \in DOMAIN ags |-> ags[i].moves_made], DOMAIN ags)

\* print_summary choosing its branch by the step budget first.
print_summary_budget_first(ags, tiles, ms, step, cleaned, last) ==
    IF step >= ms
    THEN [branch |-> "max_steps", step |-> step, cleaned |-> cleaned,
          moves |-> total_moves(ags)]
    ELSE [branch |-> "all_cleaned", step |-> last, cleaned |-> cleaned,
          moves |-> total_moves(ags)]

\* print_summary(): the record of what is printed.
print_summary(ags, tiles, ms, step, cleaned, last) ==
    IF tiles = <<>>
    THEN [branch |-> "all_cleaned", step |-> last, cleaned |-> cleaned,
          moves |-> total_moves(ags)]
    ELSE [branch |-> "max_steps", step |-> step, cleaned |-> cleaned,
          moves |-> total_moves(ags)]

\* ---- construction ----
all_cells(w, h) == [k \in 1..(w * h) |-> <<(k - 1) \div h, (k - 1) % h>>]

\* grid.is_cell_empty(c), given the agents placed so far.
is_cell_empty(c, ags) == \A i \in DOMAIN ags : ags[i].pos /= c

\* free_cells without the is_cell_empty test.
free_cells_ignores_agents(w, h, ags, tiles) ==
    SelectSeq(all_cells(w, h), LAMBDA c : c \notin Range(tiles))

free_cells(w, h, ags, tiles) ==
    SelectSeq(all_cells(w, h),
              LAMBDA c : is_cell_empty(c, ags) /\ c \notin Range(tiles))

\* The loop of spawn_dirty_tiles leaving the chosen cell in free_cells.
RECURSIVE spawn_loop_keeps_cell(_, _, _)
spawn_loop_keeps_cell(tiles, free, n) ==
    IF n <= 0 THEN {tiles}
    ELSE UNION { spawn_loop_keeps_cell(Append(tiles, free[k]), free, n - 1)
                 : k \in 1..Len(free) }

\* The loop of spawn_dirty_tiles: every list n random choices can produce.
RECURSIVE spawn_loop(_, _, _)
spawn_loop(tiles, free, n) ==
    IF n <= 0 THEN {tiles}
    ELSE UNION { spawn_loop(Append(tiles, free[k]), list_remove(free, free[k]), n - 1)
                 : k \in 1..Len(free) }

spawn_dirty_tiles(w, h, ags, tiles, dc) ==
    LET needed == dc - Len(tiles)
        free == free_cells(w, h, ags, tiles)
    IN  spawn_loop(tiles, free, Min(needed, Len(free)))

\* grid.place_agent(agent, (0, N-1)) indexes the grid's cell lists and raises
\* IndexError when the cell is not in the grid.
place_raises(w, h, ac) == ac > 0 /\ ~ in_bounds(<<0, N - 1>>, w, h)

new_agents(ac) ==
    [i \in 0..(ac - 1) |-> [pos |-> <<0, N - 1>>, next_pos |-> None, moves_made |-> 0]]

Construct(w, h, ac, dc, ms) ==
    /\ width = w
    /\ height = h
    /\ dirty_count = dc
    /\ max_steps = ms
    /\ agent_count = ac
    /\ current_step = 0
    /\ done = FALSE
    /\ cleaned_count = 0
    /\ last_cleaned_step = NoStep
    /\ summary = <<>>
    /\ calls = 0
    /\ position_changes = 0
    /\ drawn = <<>>
    /\ frame = 0
    /\ direct = 0
    /\ IF place_raises(w, h, ac)
       THEN /\ raised = TRUE
            /\ agents = new_agents(0)
            /\ dirty_tiles = <<>>
            /\ initial_dirty = 0
       ELSE /\ raised = FALSE
            /\ agents = new_agents(ac)
            /\ dirty_tiles \in spawn_dirty_tiles(w, h, new_agents(ac), <<>>, dc)
            /\ initial_dirty = Len(dirty_tiles)

Init ==
    \E w \in Widths, h \in Heights, ac \in 0..MaxAgents,
       dc \in 0..MaxDirty, ms \in 0..MaxSteps :
        Construct(w, h, ac, dc, ms)

\* ---- step() ----
\* The body of step() printing the summary in every tick.
run_step_always_prints(choice) ==
    LET order == agents_order(agents)
        now == current_step + 1
    IN  \E moved \in {advance_all(step_all(agents, order, choice, width, height),
                                  order, width, height)} :
        \E m \in {apply_removals(
                     [dirty_tiles |-> dirty_tiles, cleaned_count |-> cleaned_count,
                      last_cleaned_step |-> last_cleaned_step],
                     to_remove(dirty_tiles, moved), current_step)} :
            /\ agents' = moved
            /\ dirty_tiles' = m.dirty_tiles
            /\ cleaned_count' = m.cleaned_count
            /\ last_cleaned_step' = m.last_cleaned_step
            /\ current_step' = now
            /\ done' = finished(m.dirty_tiles, now, max_steps)
            /\ summary' = Append(summary,
                   print_summary(moved, m.dirty_tiles, max_steps, now,
                                 m.cleaned_count, m.last_cleaned_step))
            /\ UNCHANGED <<width, height, dirty_count, max_steps>>

\* The body of DummyModel.step() below its `if self.done: return`, the agents
\* drawing the moves `choice`.
run_step(choice) ==
    LET order == agents_order(agents)
        now == current_step + 1
    IN  \E moved \in {advance_all(step_all(agents, order, choice, width, height),
                                  order, width, height)} :
        \E m \in {apply_removals(
                     [dirty_tiles |-> dirty_tiles, cleaned_count |-> cleaned_count,
                      last_cleaned_step |-> last_cleaned_step],
                     to_remove(dirty_tiles, moved), current_step)} :
            /\ agents' = moved
            /\ dirty_tiles' = m.dirty_tiles
            /\ cleaned_count' = m.cleaned_count
            /\ last_cleaned_step' = m.last_cleaned_step
            /\ current_step' = now
            /\ IF finished(m.dirty_tiles, now, max_steps)
               THEN /\ done' = TRUE
                    /\ summary' = Append(summary,
                           print_summary(moved, m.dirty_tiles, max_steps, now,
                                         m.cleaned_count, m.last_cleaned_step))
               ELSE UNCHANGED <<done, summary>>
            /\ UNCHANGED <<width, height, dirty_count, max_steps>>

\* step() without its `if self.done: return`.
step_ignores_done ==
    \E choice \in [DOMAIN agents -> 1..Len(moves)] : run_step(choice)

\* step() printing the summary again when it is already done.
step_prints_again ==
    IF done
    THEN /\ summary' = Append(summary,
                print_summary(agents, dirty_tiles, max_steps, current_step,
                              cleaned_count, last_cleaned_step))
         /\ UNCHANGED <<width, height, dirty_count, max_steps, agents, dirty_tiles,
                        current_step, done, cleaned_count, last_cleaned_step>>
    ELSE \E choice \in [DOMAIN agents -> 1..Len(moves)] : run_step(choice)

\* One call of DummyModel.step().
step ==
    IF done
    THEN UNCHANGED observable
    ELSE \E choice \in [DOMAIN agents -> 1..Len(moves)] : run_step(choice)

\* What a step() call does to the history variables.
history_of_call ==
    /\ calls' = calls + 1
    /\ position_changes' = position_changes
            + Cardinality({i \in DOMAIN agents : agents'[i].pos /= agents[i].pos})
    /\ UNCHANGED <<raised, agent_count, initial_dirty>>

Tick ==
    /\ ~ raised
    /\ calls + direct < max_steps + MaxExtraCalls
    /\ step
    /\ history_of_call
    /\ UNCHANGED <<drawn, frame, direct>>

\* step(), the moves its agents draw from self.random being recorded.
TickRecorded ==
    /\ ~ raised
    /\ calls + direct < max_steps + MaxExtraCalls
    /\ IF done
       THEN UNCHANGED <<observable, drawn>>
       ELSE \E choice \in [DOMAIN agents -> 1..Len(moves)] :
                run_step(choice) /\ drawn' = choice
    /\ history_of_call
    /\ UNCHANGED <<frame, direct>>

\* ---- the helper methods called directly ----
\* What a caller observes of a call made on a helper method and not through
\* step(): no call of step() is counted.
history_of_direct_call ==
    /\ direct' = direct + 1
    /\ position_changes' = position_changes
            + Cardinality({i \in DOMAIN agents : agents'[i].pos /= agents[i].pos})
    /\ UNCHANGED <<raised, agent_count, initial_dirty, calls, drawn, frame>>

\* model.spawn_dirty_tiles() on a constructed model: tops the list up to
\* dirty_count with cells that are free now.
call_spawn_dirty_tiles ==
    /\ ~ raised
    /\ calls + direct < max_steps + MaxExtraCalls
    /\ dirty_tiles' \in spawn_dirty_tiles(width, height, agents, dirty_tiles, dirty_count)
    /\ UNCHANGED <<width, height, dirty_count, max_steps, agents, current_step,
                   done, cleaned_count, last_cleaned_step, summary>>
    /\ history_of_direct_call

\* model.print_summary(): prints whatever the state of the run is.
call_print_summary ==
    /\ ~ raised
    /\ calls + direct < max_steps + MaxExtraCalls
    /\ summary' = Append(summary,
            print_summary(agents, dirty_tiles, max_steps, current_step,
                          cleaned_count, last_cleaned_step))
    /\ UNCHANGED <<width, height, dirty_count, max_steps, agents, dirty_tiles,
                   current_step, done, cleaned_count, last_cleaned_step>>
    /\ history_of_direct_call

\* agent.step(), that is agent.intent(), on one agent.
call_agent_step ==
    /\ ~ raised
    /\ calls + direct < max_steps + MaxExtraCalls
    /\ \E i \in DOMAIN agents : \E k \in 1..Len(moves) :
           agents' = [agents EXCEPT ![i] = intent(agents[i], moves[k], width, height)]
    /\ UNCHANGED <<width, height, dirty_count, max_steps, dirty_tiles, current_step,
                   done, cleaned_count, last_cleaned_step, summary>>
    /\ history_of_direct_call

\* agent.advance() on one agent.
call_agent_advance ==
    /\ ~ raised
    /\ calls + direct < max_steps + MaxExtraCalls
    /\ \E i \in DOMAIN agents :
           agents' = [agents EXCEPT ![i] = advance(agents[i], width, height)]
    /\ UNCHANGED <<width, height, dirty_count, max_steps, dirty_tiles, current_step,
                   done, cleaned_count, last_cleaned_step, summary>>
    /\ history_of_direct_call

\* Every call a caller can make on a constructed model and its agents.
Next ==
    \/ Tick
    \/ call_spawn_dirty_tiles
    \/ call_print_summary
    \/ call_agent_step
    \/ call_agent_advance

\* The class with all its methods open to the caller.
Spec == Init /\ [][Next]_vars

\* The program: the model is constructed and step() is its one operation.
\* The program calls spawn_dirty_tiles only from __init__ (line 79, "Only
\* spawn at the beginning"), DummyAgent.step and advance only from step()
\* (lines 110, 112) and print_summary only from step() (line 131).
SpecTicks == Init /\ [][Tick]_vars

\* The same runs with the drawn moves recorded.
SpecRecorded == Init /\ [][TickRecorded]_vars

\* One frame of animate_agents: FuncAnimation(frames = max_steps + 1,
\* repeat=False) delivers the frames 0..max_steps, and update(frame) calls
\* step() only `if frame > 0 and not model.done`.  The rest of update draws
\* and changes nothing of the model.  plt.show() replays the same frames
\* after ani.save(): by then the model is done, or max_steps = 0 and frame 0
\* is the only frame, so the replay never calls step().
update ==
    /\ ~ raised
    /\ frame <= max_steps
    /\ IF frame > 0 /\ ~ done
       THEN step /\ history_of_call
       ELSE UNCHANGED <<observable, calls, position_changes, raised,
                        agent_count, initial_dirty>>
    /\ frame' = frame + 1
    /\ UNCHANGED <<drawn, direct>>

\* FuncAnimation delivers its next frame.
next_frame ==
    /\ ~ raised
    /\ frame <= max_steps
    /\ frame' = frame + 1

\* update(frame) has no precondition: it can run whenever a frame is left.
UpdateEnabledWhenFramed == (ENABLED <<update>>_vars) <=> (ENABLED <<next_frame>>_frame)

\* The program as it runs: the model driven by animate_agents, which delivers
\* every frame.  Every update step raises frame, so weak fairness of update
\* is stated on the frame counter.
SpecAnimated == Init /\ [][update]_vars /\ WF_frame(next_frame)

\* A run driven by animate_agents with a budget of at least one step reaches
\* done.  With max_steps = 0 frame 0 is the only frame and update never calls
\* step().
DrivenRunEnds == <>(raised \/ max_steps = 0 \/ done)

\* A caller calls step() once more.  step() has no precondition, so the call
\* is possible whenever the model was constructed; the bound on the number
\* of calls is the one of Tick.
CallStep ==
    /\ ~ raised
    /\ calls + direct < max_steps + MaxExtraCalls
    /\ calls' = calls + 1

\* A call of step() can be taken exactly when the caller may make one.
TickEnabledWhenCalled == (ENABLED <<Tick>>_vars) <=> (ENABLED <<CallStep>>_calls)

\* step() keeps being called: the runs of SpecTicks with weak fairness of
\* Tick.  Every Tick step raises calls and no other step of these runs
\* does, so the fairness is stated on the call counter.
SpecFair == Init /\ [][Tick]_vars /\ WF_calls(CallStep)

\* ======================================================================
\* Properties
\* ======================================================================

\* C1: in every reachable state, the state right after construction
\* included, every agent's position (x, y) has 0 <= x < width and
\* 0 <= y < height.
C1_AgentsInsideGrid ==
    \A i \in DOMAIN agents :
        /\ 0 <= agents[i].pos[1] /\ agents[i].pos[1] < width
        /\ 0 <= agents[i].pos[2] /\ agents[i].pos[2] < height

\* An agent that has moved in one tick and, in another, drew a move leading
\* out of the grid and stayed.
C1_Witness ==
    \E i \in DOMAIN agents :
        /\ agents[i].moves_made >= 1
        /\ agents[i].moves_made < current_step
        /\ agents[i].pos[2] = height - 1

\* C2: cleaned_count plus the number of remaining dirty tiles is the number
\* of tiles placed at construction, so cleaned_count never exceeds that
\* number; and no step decreases cleaned_count.
C2_Conservation ==
    /\ cleaned_count + Len(dirty_tiles) = initial_dirty
    /\ 0 <= cleaned_count
    /\ cleaned_count <= initial_dirty

C2_CleanedCount ==
    /\ [] C2_Conservation
    /\ [][cleaned_count' >= cleaned_count]_vars

\* Some tiles cleaned, some still dirty.
C2_Witness == cleaned_count >= 1 /\ dirty_tiles /= <<>> /\ current_step >= 2

\* C3: a step() call made while done is false adds exactly 1 to
\* current_step; a step() call made when done is true leaves it unchanged.
C3_StepCounter ==
    [][IF done THEN current_step' = current_step
               ELSE current_step' = current_step + 1]_vars

\* step() has been called both while running and after done.
C3_Witness ==
    done /\ current_step >= 2 /\ calls > current_step /\ DOMAIN agents /= {}

\* C4: a step() call made when done is true changes nothing observable:
\* agents (pos, next_pos, moves_made), dirty_tiles, current_step,
\* cleaned_count, last_cleaned_step, done; and prints no second summary.
C4_DoneIsNoOp == [][done => UNCHANGED observable]_vars

\* A call after done, in a run where agents moved and a tile was cleaned.
C4_Witness ==
    /\ done
    /\ calls > current_step
    /\ Len(summary) = 1
    /\ cleaned_count >= 1
    /\ \E i \in DOMAIN agents : agents[i].moves_made >= 1

\* C5: in every tick, each agent's moves_made grows by exactly 1 if its
\* position after the tick differs from its position before, and is
\* unchanged otherwise; so the sum of moves_made is the number of position
\* changes observed over the run.
C5_Sum == SumOver([i \in DOMAIN agents |-> agents[i].moves_made], DOMAIN agents)

C5_MoveCount ==
    /\ [][\A i \in DOMAIN agents :
            agents'[i].moves_made =
                agents[i].moves_made + (IF agents'[i].pos /= agents[i].pos THEN 1 ELSE 0)]_vars
    /\ [](C5_Sum = position_changes)

\* Two agents, one that moved in every tick and one that never moved.
C5_Witness ==
    /\ current_step >= 2
    /\ \E i, j \in DOMAIN agents :
        /\ agents[i].moves_made = current_step
        /\ agents[j].moves_made = 0

\* C6: if max_steps is 0 or the dirty set is empty right after construction,
\* the engine is done from construction on without executing a tick: done is
\* true, current_step and cleaned_count are 0, no agent ever moves, and for
\* max_steps = 0 the summary is the budget branch at step 0.
C6_DoneAtConstruction ==
    (~ raised /\ (max_steps = 0 \/ initial_dirty = 0)) =>
        /\ done
        /\ current_step = 0
        /\ cleaned_count = 0
        /\ \A i \in DOMAIN agents : agents[i].moves_made = 0
        /\ max_steps = 0 =>
             summary = << [branch |-> "max_steps", step |-> 0, cleaned |-> 0,
                           moves |-> 0] >>

\* C7: with max_steps >= 1, current_step never exceeds max_steps, and the
\* run is done once current_step has reached max_steps.
C7_StepBudget ==
    max_steps >= 1 =>
        /\ current_step <= max_steps
        /\ current_step = max_steps => done

\* The budget was used up with tiles left, and step() was called once more.
C7_Witness ==
    /\ max_steps >= 2
    /\ current_step = max_steps
    /\ calls > max_steps
    /\ dirty_tiles /= <<>>
    /\ DOMAIN agents /= {}

\* C8: a tick that removes at least one tile sets last_cleaned_step to the
\* value current_step has after the tick, a tick that removes none leaves
\* last_cleaned_step unchanged, and a tick that removes the last tile ends
\* with done true and prints the all-cleaned summary with that step.
C8_LastCleanedStep ==
    [][LET removes == Len(dirty_tiles') < Len(dirty_tiles)
       IN  /\ removes => last_cleaned_step' = current_step'
           /\ ~ removes => last_cleaned_step' = last_cleaned_step
           /\ (removes /\ dirty_tiles' = <<>>) =>
                /\ done'
                /\ Len(summary') = Len(summary) + 1
                /\ summary'[Len(summary')].branch = "all_cleaned"
                /\ summary'[Len(summary')].step = current_step']_vars

\* All tiles were cleaned before the step budget was used up.
C8_Witness ==
    /\ done
    /\ initial_dirty >= 1
    /\ dirty_tiles = <<>>
    /\ current_step < max_steps
    /\ last_cleaned_step = current_step

\* C9: right after construction the registry holds exactly
\* min(dirty_count, number of cells no agent occupies) pairwise distinct
\* cells, each in the grid and none under an agent, and construction raises
\* no error, also when dirty_count exceeds the number of free cells.
C9_FreeCells ==
    IF agent_count = 0 THEN width * height ELSE width * height - 1

C9_SpawnAtConstruction ==
    calls = 0 =>
        /\ dirty_count > C9_FreeCells => ~ raised
        /\ ~ raised =>
            /\ Len(dirty_tiles) = Min(dirty_count, C9_FreeCells)
            /\ \A j, k \in DOMAIN dirty_tiles :
                    j /= k => dirty_tiles[j] /= dirty_tiles[k]
            /\ \A k \in DOMAIN dirty_tiles :
                /\ 0 <= dirty_tiles[k][1] /\ dirty_tiles[k][1] < width
                /\ 0 <= dirty_tiles[k][2] /\ dirty_tiles[k][2] < height
                /\ \A i \in DOMAIN agents : agents[i].pos /= dirty_tiles[k]

\* C10: the summary printed at the transition to done is the all-cleaned
\* branch, with last_cleaned_step, iff the registry is empty, the budget
\* branch, with current_step, otherwise; the all-cleaned branch also when the
\* registry empties in the tick in which current_step reaches max_steps.
\* Both report cleaned_count and the sum of moves_made.
C10_SummaryBranch ==
    done =>
        /\ Len(summary) = 1
        /\ summary[1].branch \in {"all_cleaned", "max_steps"}
        /\ summary[1].branch = "all_cleaned" <=> dirty_tiles = <<>>
        /\ summary[1].branch = "all_cleaned" => summary[1].step = last_cleaned_step
        /\ summary[1].branch = "max_steps" => summary[1].step = current_step
        /\ summary[1].cleaned = cleaned_count
        /\ summary[1].moves = C5_Sum

\* The last tile was cleaned in the very tick that used up the budget.
C10_Witness ==
    /\ done
    /\ cleaned_count >= 1
    /\ dirty_tiles = <<>>
    /\ current_step = max_steps
    /\ last_cleaned_step = max_steps
    /\ summary[1].branch = "all_cleaned"

\* C11: done, once true, stays true under every further step() call, and
\* the summary is printed exactly once, in the tick that turns done from
\* false to true.
C11_DoneOnce ==
    /\ [][/\ done => done'
          /\ Len(summary') = Len(summary) + (IF ~ done /\ done' THEN 1 ELSE 0)]_vars
    /\ [](Len(summary) = IF done THEN 1 ELSE 0)

\* step() was called again after the run was done, tiles being left.
C11_Witness ==
    /\ done
    /\ max_steps = 1
    /\ calls = current_step + 1
    /\ dirty_tiles /= <<>>
    /\ summary /= <<>>
    /\ DOMAIN agents /= {}

\* C12: the registry only shrinks: after a tick its cells are among the
\* cells it had before (nothing is added, nothing removed comes back), no
\* cell is in it twice, and every cell of it is in the grid.
C12_Registry ==
    /\ \A j, k \in DOMAIN dirty_tiles : j /= k => dirty_tiles[j] /= dirty_tiles[k]
    /\ \A k \in DOMAIN dirty_tiles :
        /\ 0 <= dirty_tiles[k][1] /\ dirty_tiles[k][1] < width
        /\ 0 <= dirty_tiles[k][2] /\ dirty_tiles[k][2] < height

C12_OnlyShrinks ==
    /\ [] C12_Registry
    /\ [][/\ Range(dirty_tiles') \subseteq Range(dirty_tiles)
          /\ Len(dirty_tiles') <= Len(dirty_tiles)]_vars

\* One of two tiles was cleaned in the first tick, the other is still there
\* after the second.
C12_Witness ==
    /\ initial_dirty = 2
    /\ Len(dirty_tiles) = 1
    /\ last_cleaned_step = 1
    /\ current_step = 2

\* C13: right after construction all agent_count agents are at the corner
\* (0, height - 1) of the configured grid, with moves_made 0 and the ids
\* 0 .. agent_count - 1.
C13_StartCorner ==
    (calls = 0 /\ ~ raised) =>
        /\ DOMAIN agents = 0..(agent_count - 1)
        /\ \A i \in DOMAIN agents :
            /\ agents[i].pos = <<0, height - 1>>
            /\ agents[i].moves_made = 0

\* C14: at the end of a tick executed while done is false, done is true
\* iff the registry is empty or current_step, already incremented, is at
\* least max_steps.
C14_Termination ==
    [][~ done => (done' <=> (dirty_tiles' = <<>> \/ current_step' >= max_steps))]_vars

\* A tick that cleaned a tile and left the run going.
C14_Witness ==
    /\ ~ done
    /\ current_step = 1
    /\ last_cleaned_step = 1
    /\ dirty_tiles /= <<>>

\* C15: in a tick executed while done is false, a dirty cell is removed iff
\* some agent stands on it after the commit phase, and cleaned_count grows
\* by the number of cells removed, however many agents stand on each.
C15_Cleaning ==
    [][~ done =>
        /\ \A t \in Range(dirty_tiles) :
            (t \notin Range(dirty_tiles')) <=> (\E i \in DOMAIN agents' : agents'[i].pos = t)
        /\ cleaned_count' - cleaned_count =
                Cardinality(Range(dirty_tiles) \ Range(dirty_tiles'))]_vars

\* Two agents moved onto the same dirty cell in one tick, which counted once.
C15_Witness ==
    /\ current_step = 1
    /\ cleaned_count = 1
    /\ initial_dirty = 2
    /\ 0 \in DOMAIN agents /\ 1 \in DOMAIN agents
    /\ agents[0].pos = agents[1].pos
    /\ agents[0].moves_made = 1

\* Where an agent at p that draws the offset d is after the tick: at p + d
\* if that cell is in the grid, at p otherwise.
Target(p, d) ==
    IF /\ 0 <= p[1] + d[1] /\ p[1] + d[1] < width
       /\ 0 <= p[2] + d[2] /\ p[2] + d[2] < height
    THEN <<p[1] + d[1], p[2] + d[2]>>
    ELSE p

\* C16: in a tick, the intent phase changes no agent's pos or moves_made,
\* and at its end, before any agent commits, every agent's next_pos is the
\* intent derived from its own position before the tick; the positions
\* after the tick are those the commit phase makes of that state.
C16_IntentThenCommit ==
    [][~ done =>
        \A planned \in {step_all(agents, agents_order(agents), drawn', width, height)} :
            /\ \A i \in DOMAIN agents :
                /\ planned[i].pos = agents[i].pos
                /\ planned[i].moves_made = agents[i].moves_made
                /\ planned[i].next_pos = Target(agents[i].pos, moves[drawn'[i]])
            /\ agents' = advance_all(planned, agents_order(agents), width, height)
            /\ \A i \in DOMAIN agents : agents'[i].next_pos = planned[i].next_pos]_vars

\* Two agents planned and committed different moves in the same tick.
C16_Witness ==
    /\ current_step = 1
    /\ 0 \in DOMAIN agents /\ 1 \in DOMAIN agents
    /\ drawn /= <<>>
    /\ drawn[0] /= drawn[1]
    /\ agents[0].moves_made = 1 /\ agents[1].moves_made = 1
    /\ agents[0].pos /= agents[1].pos

\* C17: the moves are the eight non-zero offsets with components in
\* {-1, 0, 1}; an agent at p that draws d is at p + d after the tick if
\* p + d is in the grid and still at p otherwise, so no coordinate changes
\* by more than 1.
C17_Moves ==
    /\ Len(moves) = 8
    /\ \A j, k \in DOMAIN moves : j /= k => moves[j] /= moves[k]
    /\ \A k \in DOMAIN moves :
        /\ moves[k] /= <<0, 0>>
        /\ moves[k][1] \in -1..1 /\ moves[k][2] \in -1..1

C17_MoveOrStay ==
    /\ [] C17_Moves
    /\ [][~ done =>
            \A i \in DOMAIN agents :
                /\ agents'[i].pos = Target(agents[i].pos, moves[drawn'[i]])
                /\ agents'[i].pos[1] - agents[i].pos[1] \in -1..1
                /\ agents'[i].pos[2] - agents[i].pos[2] \in -1..1]_vars

\* In the first tick one agent drew a move out of the grid and stayed at the
\* start cell, another drew a move inside the grid and made it.
C17_Witness ==
    /\ current_step = 1
    /\ \E i, j \in DOMAIN agents :
        /\ agents[i].moves_made = 0
        /\ agents[i].pos = <<0, N - 1>>
        /\ Target(agents[i].pos, moves[drawn[i]]) = agents[i].pos
        /\ agents[j].moves_made = 1
        /\ agents[j].pos = <<moves[drawn[j]][1], N - 1 + moves[drawn[j]][2]>>

\* The orders in which the agents of S can be iterated.
Orders(S) ==
    {o \in [1..Cardinality(S) -> S] : \A j, k \in DOMAIN o : j /= k => o[j] /= o[k]}

\* C18: given the moves drawn, the state after the tick (agents, registry,
\* cleaned_count, last_cleaned_step) is the same for every order of the
\* agents in the intent loop and in the commit loop, and every agent ends
\* where it would end alone on the grid: other agents on its cell or on its
\* target cell change nothing.
C18_OrderIndependent ==
    [][~ done =>
        /\ \A o1, o2 \in Orders(DOMAIN agents) :
            \A moved \in {advance_all(step_all(agents, o1, drawn', width, height),
                                      o2, width, height)} :
                /\ moved = agents'
                /\ apply_removals(
                        [dirty_tiles |-> dirty_tiles, cleaned_count |-> cleaned_count,
                         last_cleaned_step |-> last_cleaned_step],
                        to_remove(dirty_tiles, moved), current_step)
                   = [dirty_tiles |-> dirty_tiles', cleaned_count |-> cleaned_count',
                      last_cleaned_step |-> last_cleaned_step']
        /\ \A i \in DOMAIN agents :
            agents'[i].pos = Target(agents[i].pos, moves[drawn'[i]])]_vars

\* Two agents share a cell other than the start cell, one of them having
\* moved onto it in the last tick.
C18_Witness ==
    /\ current_step = 2
    /\ 0 \in DOMAIN agents /\ 1 \in DOMAIN agents
    /\ agents[0].pos = agents[1].pos
    /\ agents[0].pos /= <<0, N - 1>>
    /\ agents[0].moves_made = 2
    /\ agents[1].moves_made = 1

\* C19: if step() keeps being called on a constructed model, done eventually
\* is TRUE, whatever the agents draw and whether or not a tile is ever
\* cleaned; with max_steps = 0 the first call ends the run.
C19_EventuallyDone == <>(raised \/ done)

\* The run ended on its step budget without any tile cleaned.
C19_Witness ==
    /\ done
    /\ max_steps = 2
    /\ current_step = 2
    /\ cleaned_count = 0
    /\ dirty_tiles /= <<>>
    /\ \E i \in DOMAIN agents : agents[i].moves_made = 2

\* C20: between step() calls no agent stands on a cell of the registry.
C20_NoAgentOnDirty ==
    \A i \in DOMAIN agents : \A k \in DOMAIN dirty_tiles :
        agents[i].pos /= dirty_tiles[k]

\* An agent stands on a cell that was dirty, next to a cell that still is.
C20_Witness ==
    /\ cleaned_count >= 1
    /\ \E i \in DOMAIN agents : \E k \in DOMAIN dirty_tiles :
        /\ agents[i].pos[1] - dirty_tiles[k][1] \in -1..1
        /\ agents[i].pos[2] - dirty_tiles[k][2] \in -1..1

====
